---- MODULE Spec2Model ----
(***************************************************************************)
(* Model of image_processor/src/lib.rs (pix-veil): the wasm bridge that    *)
(* decodes PNG bytes into an RGB8 buffer plus metadata                     *)
(* (load_image_assembled) and encodes an RGB8 buffer back into PNG bytes   *)
(* (write_image_data).  The PNG codec of the `image` crate is modelled as  *)
(* a small lossless container: signature, header, filtered scanlines,      *)
(* a compressed payload and an end marker.                                 *)
(***************************************************************************)
EXTENDS Integers, Sequences, FiniteSets, TLC

VARIABLES
    pc,            \* where the host is: "start", "written", "loaded", "free", "cap"
    input,         \* the arguments the host prepared for its pipeline
    call,          \* the last exported call and its arguments
    result,        \* what that call returned, or the panic it raised
    borrowed,      \* the buffers lent by reference to that call, as it left them
    cfg,           \* the encoder configuration write_image_data built in that call
    image,         \* the AssembledImageData object the host holds
    owners,        \* who holds a buffer with the pixels of `image`
    getter_calls,  \* getter calls made on `image`
    memo           \* one earlier call and its outcome, kept for comparison

vars == <<pc, input, call, result, borrowed, cfg, image, owners, getter_calls, memo>>

(***************************************************************************)
(* Bounds of the model.                                                    *)
(***************************************************************************)
MaxRawLen == 4        \* every byte sequence up to this length is a raw buffer
MaxUniformLen == 13   \* single-valued raw buffers go up to this length
MaxDim == 2           \* widths and heights 0..MaxDim
MaxGetterCalls == 2   \* getter calls per loaded object

SampleBytes == {0, 255}

(***************************************************************************)
(* Machine integers.  A u32 or a 32-bit usize is its four base-256 digits, *)
(* least significant first, so that products beyond 2^31 stay exact.       *)
(***************************************************************************)
WordDigits == 4
Radix == 256

Digits(n) == [i \in 1..WordDigits |-> (n \div (Radix ^ (i - 1))) % Radix]

RECURSIVE ColumnSum(_, _, _, _)
ColumnSum(a, b, k, i) ==
    IF i > Len(a) THEN 0
    ELSE (IF k + 1 - i >= 1 /\ k + 1 - i <= Len(b) THEN a[i] * b[k + 1 - i] ELSE 0)
         + ColumnSum(a, b, k, i + 1)

RECURSIVE Carry(_, _, _, _, _)
Carry(a, b, k, n, c) ==
    IF k > n THEN <<>>
    ELSE LET t == ColumnSum(a, b, k, 1) + c
         IN  <<t % Radix>> \o Carry(a, b, k + 1, n, t \div Radix)

\* The exact product of two digit strings, Len(a) + Len(b) digits long.
MulDigits(a, b) == Carry(a, b, 1, Len(a) + Len(b), 0)

Low(d) == SubSeq(d, 1, WordDigits)
HighIsZero(d) == \A i \in (WordDigits + 1)..Len(d) : d[i] = 0

RECURSIVE LeqFrom(_, _, _)
LeqFrom(a, b, i) ==
    IF i = 0 THEN TRUE
    ELSE IF a[i] # b[i] THEN a[i] < b[i]
    ELSE LeqFrom(a, b, i - 1)

\* a <= b for two words.
LeqDigits(a, b) == LeqFrom(a, b, WordDigits)

\* usize::checked_mul on the wasm32 target (32-bit usize).
checked_mul(a, b) ==
    LET p == MulDigits(a, b)
    IN  [some |-> HighIsZero(p), val |-> Low(p)]

\* u32 `*`: the wrapped value, and whether the exact product did not fit.
u32_mul(a, b) ==
    LET p == MulDigits(a, b)
    IN  [overflow |-> ~HighIsZero(p), val |-> Low(p)]

(***************************************************************************)
(* The PNG codec of the `image` crate, as the bridge uses it.              *)
(***************************************************************************)
ColorTypes == {"L8", "La8", "Rgb8", "Rgba8"}

channel_count(color) ==
    CASE color = "L8" -> 1 [] color = "La8" -> 2 [] color = "Rgb8" -> 3 [] color = "Rgba8" -> 4

\* The colour-type byte of the PNG header.
ColorCode(color) ==
    CASE color = "L8" -> 0 [] color = "La8" -> 4 [] color = "Rgb8" -> 2 [] color = "Rgba8" -> 6

ColorOfCode(code) == CHOOSE c \in ColorTypes : ColorCode(c) = code

Signature == <<137, 80>>
Iend == <<73, 69>>

Min(a, b) == IF a <= b THEN a ELSE b

RECURSIVE Sum(_)
Sum(s) == IF s = <<>> THEN 0 ELSE Head(s) + Sum(Tail(s))

\* PNG filter type 1 (Sub): each byte minus the byte one pixel to its left.
SubFilter(row, bpp) ==
    [i \in 1..Len(row) |-> (row[i] + 256 - (IF i > bpp THEN row[i - bpp] ELSE 0)) % 256]

RECURSIVE UnSub(_, _, _)
UnSub(x, bpp, acc) ==
    IF Len(acc) = Len(x) THEN acc
    ELSE LET i == Len(acc) + 1
             left == IF i > bpp THEN acc[i - bpp] ELSE 0
         IN  UnSub(x, bpp, Append(acc, (x[i] + left) % 256))

\* The cost the adaptive filter search minimises: bytes read as signed.
FilterCost(row) == Sum([i \in 1..Len(row) |-> Min(row[i], 256 - row[i])])

\* One scanline: the filter-type byte, then the filtered bytes.
FilterRow(filter, row, bpp) ==
    IF filter = "Adaptive" /\ FilterCost(SubFilter(row, bpp)) < FilterCost(row)
    THEN <<1>> \o SubFilter(row, bpp)
    ELSE <<0>> \o row

RECURSIVE Scanlines(_, _, _, _, _)
Scanlines(filter, samples, stride, bpp, r) ==
    IF r * stride >= Len(samples) \/ stride = 0 THEN <<>>
    ELSE FilterRow(filter, SubSeq(samples, r * stride + 1, (r + 1) * stride), bpp)
         \o Scanlines(filter, samples, stride, bpp, r + 1)

RunLength(data, cap) ==
    LET m == Min(cap, Len(data))
    IN  CHOOSE n \in 1..m :
            /\ \A i \in 1..n : data[i] = data[1]
            /\ n = m \/ data[n + 1] # data[1]

RECURSIVE Rle(_, _)
Rle(data, cap) ==
    IF data = <<>> THEN <<>>
    ELSE LET n == RunLength(data, cap)
         IN  <<n, data[1]>> \o Rle(SubSeq(data, n + 1, Len(data)), cap)

RECURSIVE UnRle(_)
UnRle(z) ==
    IF Len(z) < 2 THEN <<>>
    ELSE [i \in 1..z[1] |-> z[2]] \o UnRle(SubSeq(z, 3, Len(z)))

\* The compressed payload: Fast stores the bytes, Default and Best code runs,
\* Best with longer runs.
Deflate(compression, data) ==
    CASE compression = "Fast" -> <<0>> \o data
      [] compression = "Default" -> <<1>> \o Rle(data, 4)
      [] compression = "Best" -> <<2>> \o Rle(data, 255)

Inflate(z) ==
    IF z = <<>> THEN [ok |-> FALSE, data |-> <<>>]
    ELSE IF z[1] = 0 THEN [ok |-> TRUE, data |-> Tail(z)]
    ELSE IF z[1] \in {1, 2} /\ Len(z) % 2 = 1
            /\ \A i \in 2..Len(z) : i % 2 = 0 => z[i] \in 1..255
         THEN [ok |-> TRUE, data |-> UnRle(Tail(z))]
    ELSE [ok |-> FALSE, data |-> <<>>]

\* PngEncoder::write_image: fails on a zero dimension; the sample count must
\* match the dimensions.
PngEncode(samples, width, height, color, compression, filter) ==
    LET bpp == channel_count(color)
    IN  IF width = 0 \/ height = 0 \/ Len(samples) # width * height * bpp
        THEN [ok |-> FALSE, bytes |-> <<>>]
        ELSE [ok |-> TRUE,
              bytes |-> Signature \o <<width, height, 8, ColorCode(color)>>
                        \o Deflate(compression,
                                   Scanlines(filter, samples, width * bpp, bpp, 0))
                        \o Iend]

DecodeError == [ok |-> FALSE, color |-> "Rgb8", width |-> 0, height |-> 0, buf |-> <<>>]

RECURSIVE Unfilter(_, _, _, _)
Unfilter(lines, stride, bpp, r) ==
    IF r * (stride + 1) >= Len(lines) THEN <<>>
    ELSE LET ft == lines[r * (stride + 1) + 1]
             x == SubSeq(lines, r * (stride + 1) + 2, (r + 1) * (stride + 1))
         IN  (IF ft = 1 THEN UnSub(x, bpp, <<>>) ELSE x)
             \o Unfilter(lines, stride, bpp, r + 1)

\* image::load_from_memory_with_format(bytes, Png): the decoded DynamicImage,
\* or an error for anything that is not a complete, consistent stream.
PngDecode(s) ==
    IF Len(s) < Len(Signature) + 4 + Len(Iend) THEN DecodeError
    ELSE IF SubSeq(s, 1, 2) # Signature \/ SubSeq(s, Len(s) - 1, Len(s)) # Iend
    THEN DecodeError
    ELSE LET width == s[3]
             height == s[4]
             depth == s[5]
             code == s[6]
         IN  IF width < 1 \/ height < 1 \/ depth # 8 \/ code \notin {0, 2, 4, 6}
             THEN DecodeError
             ELSE LET color == ColorOfCode(code)
                      bpp == channel_count(color)
                      stride == width * bpp
                      z == Inflate(SubSeq(s, 7, Len(s) - 2))
                  IN  IF ~z.ok \/ Len(z.data) # height * (stride + 1)
                      THEN DecodeError
                      ELSE IF \E r \in 0..(height - 1) :
                                  z.data[r * (stride + 1) + 1] \notin {0, 1}
                      THEN DecodeError
                      ELSE [ok |-> TRUE, color |-> color, width |-> width,
                            height |-> height,
                            buf |-> Unfilter(z.data, stride, bpp, 0)]

\* DynamicImage::new_rgb8: a zero-filled RGB8 image.
new_rgb8(width, height) ==
    [ok |-> TRUE, color |-> "Rgb8", width |-> width, height |-> height,
     buf |-> [i \in 1..(width * height * 3) |-> 0]]

\* One pixel converted to RGB: grey is replicated, alpha is dropped.
PixelToRgb(color, px) ==
    CASE color = "L8" -> <<px[1], px[1], px[1]>>
      [] color = "La8" -> <<px[1], px[1], px[1]>>
      [] color = "Rgb8" -> <<px[1], px[2], px[3]>>
      [] color = "Rgba8" -> <<px[1], px[2], px[3]>>

RECURSIVE ConvertPixels(_, _, _, _)
ConvertPixels(color, buf, n, k) ==
    IF k >= n THEN <<>>
    ELSE LET bpp == channel_count(color)
         IN  PixelToRgb(color, SubSeq(buf, k * bpp + 1, (k + 1) * bpp))
             \o ConvertPixels(color, buf, n, k + 1)

\* DynamicImage::to_rgb8: a new RGB8 buffer of exactly width * height pixels,
\* read from the first width * height pixels of the source buffer.
to_rgb8(img) ==
    [width |-> img.width, height |-> img.height,
     buf |-> ConvertPixels(img.color, img.buf, img.width * img.height, 0)]

(***************************************************************************)
(* ImageBuffer::from_raw and the capacity of the output vector.            *)
(***************************************************************************)
Three == <<3, 0, 0, 0>>

\* Fault: the minimum length computed with wrapping multiplications.
image_buffer_len_wrapping(width, height) ==
    [some |-> TRUE, val |-> u32_mul(u32_mul(Three, width).val, height).val]

\* ImageBuffer::image_buffer_len: 3 * width * height in checked usize.
image_buffer_len(width, height) ==
    LET row == checked_mul(Three, width)
    IN  IF row.some THEN checked_mul(row.val, height) ELSE row

\* ImageBuffer::from_raw succeeds iff the length is known and the buffer is
\* at least that long.
check_image_fits(width, height, len) ==
    LET min_len == image_buffer_len(width, height)
    IN  min_len.some /\ LeqDigits(min_len.val, len)

\* (width * height * 3) as usize, in u32 arithmetic.
capacity(width, height) ==
    LET area == u32_mul(width, height)
        bytes == u32_mul(area.val, Three)
    IN  [overflow |-> area.overflow \/ bytes.overflow, val |-> bytes.val]

\* An overflowing u32 product aborts a build with overflow checks and wraps
\* in one without.
CapacityOutcomes(cap) == IF cap.overflow THEN {"abort", "wrap"} ELSE {"exact"}

\* Fault: the Fast/Default boundary one level too low.
compression_type_shifted(compression_level) ==
    CASE compression_level \in 0..2 -> "Fast"
      [] compression_level \in 3..6 -> "Default"
      [] compression_level \in 7..9 -> "Best"
      [] OTHER -> "Fast"

\* Fault: out-of-range levels fall back to Default instead of Fast.
compression_type_balanced_default(compression_level) ==
    CASE compression_level \in 0..3 -> "Fast"
      [] compression_level \in 4..6 -> "Default"
      [] compression_level \in 7..9 -> "Best"
      [] OTHER -> "Default"

\* The match on compression_level.
compression_type(compression_level) ==
    CASE compression_level \in 0..3 -> "Fast"
      [] compression_level \in 4..6 -> "Default"
      [] compression_level \in 7..9 -> "Best"
      [] OTHER -> "Fast"

\* Fault: write_image told the buffer has an alpha channel.
color_type_rgba == "Rgba8"

\* The colour type handed to write_image.
color_type == "Rgb8"

\* Fault: adaptive filtering switched on for the Best tier.
filter_type_by_level(compression_level) ==
    IF compression_type(compression_level) = "Best" THEN "Adaptive" ELSE "NoFilter"

\* The filter handed to PngEncoder::new_with_quality.
filter_type(compression_level) == "NoFilter"

(***************************************************************************)
(* Values crossing the boundary.                                           *)
(***************************************************************************)
NoMetadata == [width |-> 0, height |-> 0, channels |-> 0]
NoImage == [data |-> <<>>, metadata |-> NoMetadata]

NoResult == [kind |-> "none", msg |-> "", bytes |-> <<>>, object |-> NoImage,
             metadata |-> NoMetadata]
Panic(msg) == [NoResult EXCEPT !.kind = "panic", !.msg = msg]

\* Fault: the output is appended to a buffer kept from the previous call.
Uint8Array_from_shared(buffer) ==
    [NoResult EXCEPT !.kind = "Uint8Array", !.bytes = result.bytes \o buffer]

\* Uint8Array::from(&[u8]): a new JS array holding a copy of the bytes.
Uint8Array_from(buffer) == [NoResult EXCEPT !.kind = "Uint8Array", !.bytes = buffer]

NoCfg == [built |-> FALSE, compression |-> "", filter |-> "",
          capacity |-> [overflow |-> FALSE, val |-> Digits(0)]]

NoCall == [op |-> "none", png_data |-> <<>>, raw_data |-> <<>>, width |-> Digits(0),
           height |-> Digits(0), len |-> Digits(0), compression_level |-> 0]

\* Fault: the placeholder built with no pixels.
unwrap_or_empty(decoded) == IF decoded.ok THEN decoded ELSE new_rgb8(0, 0)

\* .unwrap_or_else(|_| DynamicImage::new_rgb8(1, 1))
unwrap_or_else(decoded) == IF decoded.ok THEN decoded ELSE new_rgb8(1, 1)

\* ImageBuffer::into_raw: the buffer itself, moved out.
into_raw(rgb_img) == rgb_img.buf

(***************************************************************************)
(* The exported operations.                                                *)
(***************************************************************************)
load_image_assembled(png_data) ==
    LET img == unwrap_or_else(PngDecode(png_data))
        rgb_img == to_rgb8(img)
        metadata == [width |-> rgb_img.width, height |-> rgb_img.height, channels |-> 3]
        assembled == [data |-> into_raw(rgb_img), metadata |-> metadata]
    IN  /\ call' = [NoCall EXCEPT !.op = "load_image_assembled", !.png_data = png_data]
        /\ result' = [NoResult EXCEPT !.kind = "AssembledImageData", !.object = assembled]
        /\ borrowed' = png_data
        /\ cfg' = NoCfg
        /\ image' = assembled
        /\ owners' = {<<"AssembledImageData", 0>>}
        /\ getter_calls' = 0

\* Lines 96-111 on a buffer known by its length only: the from_raw check,
\* the capacity and the encoder parameters.
Prepare(len, width, height, compression_level) ==
    IF ~check_image_fits(width, height, len) THEN NoCfg
    ELSE [built |-> TRUE,
          compression |-> compression_type(compression_level),
          filter |-> filter_type(compression_level),
          capacity |-> capacity(width, height)]

write_image_data(raw_data, width, height, compression_level) ==
    \E prep \in {Prepare(Digits(Len(raw_data)), Digits(width), Digits(height),
                         compression_level)} :
        /\ call' = [NoCall EXCEPT !.op = "write_image_data", !.raw_data = raw_data,
                                  !.width = Digits(width), !.height = Digits(height),
                                  !.len = Digits(Len(raw_data)),
                                  !.compression_level = compression_level]
        /\ cfg' = prep
        /\ \E outcome \in CapacityOutcomes(prep.capacity) :
              result' =
                 IF ~prep.built THEN Panic("Failed to create ImageBuffer")
                 ELSE IF outcome = "abort" THEN Panic("attempt to multiply with overflow")
                 ELSE LET img == [color |-> "Rgb8", width |-> width, height |-> height,
                                  buf |-> raw_data]
                          png == PngEncode(to_rgb8(img).buf, width, height, color_type,
                                           prep.compression, prep.filter)
                      IN  IF png.ok THEN Uint8Array_from(png.bytes)
                          ELSE Panic("Failed to encode PNG")
        /\ borrowed' = <<>>
        /\ UNCHANGED <<image, owners, getter_calls>>

\* write_image_data up to the encoder call, for buffers too large to list.
write_image_data_sized(len, width, height, compression_level) ==
    \E prep \in {Prepare(len, width, height, compression_level)} :
        /\ call' = [NoCall EXCEPT !.op = "write_image_data", !.width = width,
                                  !.height = height, !.len = len,
                                  !.compression_level = compression_level]
        /\ cfg' = prep
        /\ \E outcome \in CapacityOutcomes(prep.capacity) :
              result' =
                 IF ~prep.built THEN Panic("Failed to create ImageBuffer")
                 ELSE IF outcome = "abort" THEN Panic("attempt to multiply with overflow")
                 ELSE [NoResult EXCEPT !.kind = "encoding"]
        /\ borrowed' = <<>>
        /\ UNCHANGED <<image, owners, getter_calls>>

\* Fault: data() moves the buffer out of the object.
data_take ==
    /\ image # NoImage
    /\ call' = [NoCall EXCEPT !.op = "data"]
    /\ result' = Uint8Array_from(image.data)
    /\ image' = [image EXCEPT !.data = <<>>]
    /\ owners' = {<<"Uint8Array", 1>>}
    /\ getter_calls' = getter_calls + 1
    /\ borrowed' = <<>>
    /\ cfg' = NoCfg

\* AssembledImageData::data: a new Uint8Array with a copy of self.data.
data ==
    /\ image # NoImage
    /\ call' = [NoCall EXCEPT !.op = "data"]
    /\ result' = Uint8Array_from(image.data)
    /\ owners' = owners \cup {<<"Uint8Array", Cardinality(owners)>>}
    /\ getter_calls' = getter_calls + 1
    /\ borrowed' = <<>>
    /\ cfg' = NoCfg
    /\ UNCHANGED image

\* AssembledImageData::metadata: a clone of self.metadata.
metadata ==
    /\ image # NoImage
    /\ call' = [NoCall EXCEPT !.op = "metadata"]
    /\ result' = [NoResult EXCEPT !.kind = "Metadata", !.metadata = image.metadata]
    /\ getter_calls' = getter_calls + 1
    /\ borrowed' = <<>>
    /\ cfg' = NoCfg
    /\ UNCHANGED <<image, owners>>

(***************************************************************************)
(* What the host feeds the bridge.                                         *)
(***************************************************************************)
Uniform(n, b) == [i \in 1..n |-> b]

PixelSamples == {<<0, 0, 0>>, <<255, 255, 255>>, <<255, 0, 0>>, <<0, 0, 255>>}

\* Every short buffer, the single-valued buffers, and two- and four-pixel
\* images with differing pixels.
RawBufs ==
    UNION {[1..n -> SampleBytes] : n \in 0..MaxRawLen}
    \cup {Uniform(n, b) : n \in 0..MaxUniformLen, b \in SampleBytes}
    \cup {p \o q : p \in PixelSamples, q \in PixelSamples}
    \cup {p \o q \o q \o p : p \in PixelSamples, q \in PixelSamples}

WhiteBufs == {Uniform(3, 255), Uniform(MaxRawLen, 255), Uniform(MaxUniformLen, 255)}

Dims == 0..MaxDim

File(bytes, valid, width, height) ==
    [bytes |-> bytes, valid |-> valid, width |-> width, height |-> height]

NoFile == File(<<>>, FALSE, 0, 0)

Rgb1x1 == PngEncode(<<255, 0, 255>>, 1, 1, "Rgb8", "Fast", "NoFilter").bytes
Rgb2x2 == PngEncode(Uniform(12, 255), 2, 2, "Rgb8", "Best", "NoFilter").bytes

\* Well-formed streams of every colour type, filter and compression.
ValidFiles ==
    { File(Rgb1x1, TRUE, 1, 1),
      File(Rgb2x2, TRUE, 2, 2),
      File(PngEncode(<<255, 0, 255, 255, 0, 255>>, 2, 1, "Rgb8", "Default", "Adaptive").bytes,
           TRUE, 2, 1),
      File(PngEncode(<<255, 0, 0, 128>>, 1, 1, "Rgba8", "Best", "NoFilter").bytes,
           TRUE, 1, 1),
      File(PngEncode(<<255, 255, 255, 0, 255, 255, 255, 0>>, 1, 2, "Rgba8", "Default",
                     "Adaptive").bytes, TRUE, 1, 2),
      File(PngEncode(<<0, 255, 255>>, 3, 1, "L8", "Default", "NoFilter").bytes, TRUE, 3, 1),
      File(PngEncode(<<255, 0, 255, 255>>, 2, 1, "La8", "Fast", "Adaptive").bytes, TRUE, 2, 1) }

\* Streams the decoder rejects: empty, truncated, corrupt or unsupported.
MalformedFiles ==
    { File(b, FALSE, 0, 0) : b \in
        { <<>>,
          Signature,
          <<255, 255, 255>>,
          SubSeq(Rgb1x1, 1, Len(Rgb1x1) - 1),
          SubSeq(Rgb2x2, 1, 8),
          <<0>> \o Tail(Rgb1x1),
          [Rgb1x1 EXCEPT ![3] = 0],
          [Rgb1x1 EXCEPT ![3] = 2],
          [Rgb1x1 EXCEPT ![5] = 16],
          [Rgb1x1 EXCEPT ![6] = 3],
          [Rgb1x1 EXCEPT ![7] = 7],
          [Rgb1x1 EXCEPT ![8] = 9],
          [Rgb2x2 EXCEPT ![8] = 0],
          SubSeq(Rgb2x2, 1, 9) \o Iend } }

Files == ValidFiles \cup MalformedFiles

NoSized == [len |-> Digits(0), width |-> Digits(0), height |-> Digits(0)]

HostInput(kind, raw_data, width, height, compression_level, file, sized) ==
    [kind |-> kind, raw_data |-> raw_data, width |-> width, height |-> height,
     compression_level |-> compression_level, file |-> file, sized |-> sized]

NoInput == HostInput("none", <<>>, 0, 0, 0, NoFile, NoSized)

\* Every raw buffer at every level 0..9, and the rest of the u8 range on the
\* all-white buffers.
WriteInputs ==
    { HostInput("write", r, w, h, l, NoFile, NoSized) :
        r \in RawBufs, w \in Dims, h \in Dims, l \in 0..9 }
    \cup { HostInput("write", r, w, h, l, NoFile, NoSized) :
        r \in WhiteBufs, w \in Dims, h \in Dims, l \in 10..255 }

LoadInputs == { HostInput("load", <<>>, 0, 0, 0, f, NoSized) : f \in Files }

NoMemo == [set |-> FALSE, call |-> NoCall, result |-> NoResult]

Idle ==
    /\ call = NoCall
    /\ result = NoResult
    /\ borrowed = <<>>
    /\ cfg = NoCfg
    /\ image = NoImage
    /\ owners = {}
    /\ getter_calls = 0
    /\ memo = NoMemo

(***************************************************************************)
(* Spec: one pipeline run per behaviour.  The host either encodes a raw    *)
(* buffer and decodes the bytes it got back, or decodes a file; then it    *)
(* reads the assembled object through its getters.                         *)
(***************************************************************************)
Init ==
    /\ pc = "start"
    /\ input \in WriteInputs \cup LoadInputs
    /\ Idle

Encode ==
    /\ pc = "start"
    /\ input.kind = "write"
    /\ write_image_data(input.raw_data, input.width, input.height, input.compression_level)
    /\ pc' = "written"
    /\ UNCHANGED <<input, memo>>

DecodeFile ==
    /\ pc = "start"
    /\ input.kind = "load"
    /\ load_image_assembled(input.file.bytes)
    /\ pc' = "loaded"
    /\ UNCHANGED <<input, memo>>

DecodeEncoded ==
    /\ pc = "written"
    /\ result.kind = "Uint8Array"
    /\ load_image_assembled(result.bytes)
    /\ pc' = "loaded"
    /\ UNCHANGED <<input, memo>>

GetData ==
    /\ pc = "loaded"
    /\ getter_calls < MaxGetterCalls
    /\ data
    /\ UNCHANGED <<pc, input, memo>>

GetMetadata ==
    /\ pc = "loaded"
    /\ getter_calls < MaxGetterCalls
    /\ metadata
    /\ UNCHANGED <<pc, input, memo>>

Next == Encode \/ DecodeFile \/ DecodeEncoded \/ GetData \/ GetMetadata

Spec == Init /\ [][Next]_vars

(***************************************************************************)
(* SpecFree: any sequence of load_image_assembled and write_image_data     *)
(* calls, in any order and with any of a few arguments.  `memo` keeps one  *)
(* earlier call and its outcome.                                           *)
(***************************************************************************)
FreeWrites ==
    { HostInput("write", r, w, 1, l, NoFile, NoSized) :
        r \in {Uniform(2, 255), Uniform(3, 255), Uniform(4, 255), Uniform(6, 255)},
        w \in 0..2, l \in {0, 9} }

FreeFiles ==
    {Rgb1x1, <<>>, SubSeq(Rgb1x1, 1, Len(Rgb1x1) - 1),
     PngEncode(<<255, 0, 0, 128>>, 1, 1, "Rgba8", "Best", "NoFilter").bytes}

Remember ==
    \/ memo' = memo
    \/ /\ ~memo.set
       /\ memo' = [set |-> TRUE, call |-> call', result |-> result']

InitFree ==
    /\ pc = "free"
    /\ input = NoInput
    /\ Idle

FreeWrite ==
    /\ pc = "free"
    /\ \E i \in FreeWrites :
          write_image_data(i.raw_data, i.width, i.height, i.compression_level)
    /\ Remember
    /\ UNCHANGED <<pc, input>>

FreeLoad ==
    /\ pc = "free"
    /\ \E b \in FreeFiles \cup (IF result.kind = "Uint8Array" THEN {result.bytes} ELSE {}) :
          load_image_assembled(b)
    /\ Remember
    /\ UNCHANGED <<pc, input>>

NextFree == FreeWrite \/ FreeLoad

SpecFree == InitFree /\ [][NextFree]_vars

(***************************************************************************)
(* SpecCap: write_image_data up to the encoder call, on widths, heights    *)
(* and buffer lengths across the whole 32-bit range.  A Vec<u8> holds at   *)
(* most isize::MAX = 2^31 - 1 bytes on wasm32.                             *)
(***************************************************************************)
SmallWords == {Digits(n) : n \in {0, 1, 2, 3, 255, 256, 26754, 26755, 37837, 37838,
                                  65535, 65536, 715827882, 715827883}}

WordSamples ==
    SmallWords \cup { <<85, 85, 85, 85>>, <<86, 85, 85, 85>>, <<255, 255, 255, 127>>,
                      <<0, 0, 0, 128>>, <<255, 255, 255, 255>> }

LenSamples ==
    {Digits(n) : n \in {0, 1, 3, 12, 196605, 196608, 50330880, 2147329548, 2147483647}}

SizedInputs ==
    { HostInput("sized", <<>>, 0, 0, l, NoFile, [len |-> n, width |-> w, height |-> h]) :
        n \in LenSamples, w \in WordSamples, h \in WordSamples, l \in {0, 9} }

InitCap ==
    /\ pc = "cap"
    /\ input \in SizedInputs
    /\ Idle

WriteSized ==
    /\ pc = "cap"
    /\ write_image_data_sized(input.sized.len, input.sized.width, input.sized.height,
                              input.compression_level)
    /\ pc' = "cap_done"
    /\ UNCHANGED <<input, memo>>

SpecCap == InitCap /\ [][WriteSized]_vars

(***************************************************************************)
(* Properties.                                                             *)
(***************************************************************************)
Wrote == call.op = "write_image_data"
Loaded == call.op = "load_image_assembled"

\* The 1x1 zero-valued placeholder.
Sentinel == [data |-> <<0, 0, 0>>, metadata |-> [width |-> 1, height |-> 1, channels |-> 3]]

\* C1: for every compression_level 0..9 the encoder's tier is Fast for 0..3,
\* Default (Balanced) for 4..6 and Best for 7..9.
C1_TierByLevel ==
    (Wrote /\ cfg.built /\ call.compression_level \in 0..9) =>
        cfg.compression = (IF call.compression_level <= 3 THEN "Fast"
                           ELSE IF call.compression_level <= 6 THEN "Default"
                           ELSE "Best")

C1_Witness ==
    /\ Wrote /\ cfg.built
    /\ call.compression_level = 5
    /\ cfg.compression = "Default"
    /\ result.kind = "Uint8Array"

\* C2: whenever the codec fails to decode the input, load_image_assembled
\* returns the 1x1, three-channel, all-zero image of exactly 3 bytes, and does
\* not fail.
C2_DecodeFailureGivesSentinel ==
    /\ (Loaded /\ ~PngDecode(call.png_data).ok) =>
           /\ result.kind = "AssembledImageData"
           /\ result.object = Sentinel
           /\ Len(result.object.data) = 3
    /\ (pc = "loaded" /\ input.kind = "load" /\ ~input.file.valid) => image = Sentinel

C2_Witness ==
    /\ Loaded
    /\ call.png_data = <<>>
    /\ ~PngDecode(call.png_data).ok
    /\ result.object = Sentinel

\* C3: write_image_data fails fatally whenever the buffer length differs from
\* width * height * 3, shorter or longer.
C3_MismatchFails ==
    (pc = "written" /\ Len(input.raw_data) # input.width * input.height * 3) =>
        result.kind = "panic"

\* The arguments of a write the round trip is claimed for.
ValidWrite ==
    /\ input.kind = "write"
    /\ input.width >= 1 /\ input.height >= 1
    /\ Len(input.raw_data) = input.width * input.height * 3
    /\ input.compression_level \in 0..9

\* C4: a buffer of exactly width * height * 3 bytes, width and height at least
\* 1, written at any level 0..9 and loaded again, comes back byte for byte
\* with metadata {width, height, 3}.
C4_RoundTrip ==
    ValidWrite =>
        /\ pc = "written" => result.kind = "Uint8Array"
        /\ pc = "loaded" =>
              image = [data |-> input.raw_data,
                       metadata |-> [width |-> input.width, height |-> input.height,
                                     channels |-> 3]]

C4_Witness ==
    /\ ValidWrite /\ pc = "loaded" /\ Loaded
    /\ input.raw_data = <<255, 0, 0, 0, 0, 255, 0, 0, 255, 255, 0, 0>>
    /\ input.width = 2 /\ input.height = 2
    /\ input.compression_level = 9
    /\ result.object.data = input.raw_data

\* The pairing of C5: every object load_image_assembled returns has channels = 3 and
\* data.length = width * height * 3, with the dimensions of the decoded image,
\* and the getters leave the object as it is.
C5_Pairing ==
    image # NoImage =>
        /\ image.metadata.channels = 3
        /\ Len(image.data) = image.metadata.width * image.metadata.height * 3
        /\ (input.kind = "load" /\ input.file.valid) =>
               /\ image.metadata.width = input.file.width
               /\ image.metadata.height = input.file.height
        /\ input.kind = "write" =>
               /\ image.metadata.width = input.width
               /\ image.metadata.height = input.height

\* C5: the pairing holds in every state, and a getter call leaves the object
\* unchanged.
C5_AssembledInvariant ==
    /\ []C5_Pairing
    /\ [][call'.op \in {"data", "metadata"} => image' = image]_vars

C5_Witness ==
    /\ getter_calls = 2 /\ call.op = "metadata"
    /\ Cardinality(owners) = 2
    /\ input.kind = "load" /\ input.file.valid /\ input.file.width = 3
    /\ image.metadata = [width |-> 3, height |-> 1, channels |-> 3]
    /\ Len(image.data) = 9

\* C6: every compression_level 10..255 maps to Fast, and every level of the
\* u8 range gets a tier without an error.
C6_OutOfRangeIsFast ==
    (Wrote /\ cfg.built) =>
        /\ cfg.compression \in {"Fast", "Default", "Best"}
        /\ call.compression_level \in 10..255 =>
              /\ cfg.compression = "Fast"
              /\ (input.width >= 1 /\ input.height >= 1) => result.kind = "Uint8Array"

C6_Witness ==
    /\ Wrote /\ cfg.built
    /\ call.compression_level = 255
    /\ cfg.compression = "Fast"
    /\ result.kind = "Uint8Array"

\* C7: two calls with equal arguments have equal outcomes whatever ran before
\* or between them, and load_image_assembled leaves its input bytes as they
\* were.
C7_OutcomeDependsOnArgumentsOnly ==
    /\ (memo.set /\ memo.call = call) => memo.result = result
    /\ Loaded => borrowed = call.png_data

C7_Witness ==
    /\ memo.set /\ memo.call = call
    /\ Wrote /\ result.kind = "Uint8Array"
    /\ image # NoImage /\ image # Sentinel

\* C8: from the codec's pixel grid to the pixels the caller gets from data(),
\* only one copy of the pixel bytes exists.
C8_SingleCopy == Cardinality(owners) <= 1

\* C9: the encoder's filter is NoFilter for every level, width, height and
\* buffer; no scanline of the output is filtered.
RowFilters(png) ==
    LET lines == Inflate(SubSeq(png, 7, Len(png) - 2)).data
        stride == png[3] * 3 + 1
    IN  {lines[r * stride + 1] : r \in 0..(png[4] - 1)}

C9_NoFilterAlways ==
    (Wrote /\ cfg.built) =>
        /\ cfg.filter = "NoFilter"
        /\ result.kind = "Uint8Array" => RowFilters(result.bytes) = {0}

C9_Witness ==
    /\ Wrote /\ cfg.built /\ cfg.filter = "NoFilter"
    /\ call.compression_level = 9
    /\ call.raw_data = Uniform(6, 255) /\ input.width = 2 /\ input.height = 1
    /\ FilterRow("Adaptive", call.raw_data, 3)[1] = 1
    /\ RowFilters(result.bytes) = {0}

\* C10: once ImageBuffer::from_raw has succeeded, width * height * 3 in u32
\* is the exact product: it neither wraps nor aborts.
C10_CapacityExact ==
    (Wrote /\ cfg.built) =>
        /\ ~cfg.capacity.overflow
        /\ result.kind # "panic"
        /\ cfg.capacity.val \o <<0, 0, 0, 0, 0>>
              = MulDigits(MulDigits(call.width, call.height), <<3>>)

C10_Witness ==
    /\ Wrote /\ cfg.built
    /\ call.width = Digits(26754) /\ call.height = Digits(26754)
    /\ call.len = Digits(2147483647)
    /\ cfg.capacity.val = Digits(2147329548)

====
